---- MODULE Spec2Model ----
(***************************************************************************)
(* A model of src/library_acquisitions/generic_pol_creator.py: the         *)
(* template store, the interview, the template merge and the save loop of  *)
(* main.                                                                   *)
(*                                                                         *)
(* Representation.  A JSON object / Python dict is a function whose domain *)
(* is its set of keys (the empty dict is << >>), a JSON array / Python     *)
(* list is a sequence.  A text that the program inspects character by      *)
(* character (price, title, vendor reference, user id) is a sequence of    *)
(* one-character strings; every other text is a string.  A Python value    *)
(* that may be None is None or Some(v).                                    *)
(***************************************************************************)
EXTENDS Integers, Sequences, FiniteSets, TLC

VARIABLES
    pc,                   \* position of main
    templates_dir,        \* the file system: the directory find_templates_directory finds, or None
    template_files,       \* the file system: the files of that directory, in glob's order
    templates,            \* main: templates
    template_name,        \* main: template_name (None before a selection)
    user_input,           \* main: user_input
    selected_categories,  \* get_receiving_note_categories: selected_categories
    receiving_categories, \* main: receiving_categories
    conditional_data,     \* main: conditional_data
    po_data,              \* main: po_data
    filename,             \* main: filename
    confirm,              \* main: confirm
    now,                  \* the clock read by datetime.now(), in days
    asked,                \* the prompts asked in this iteration of the loop
    cancelled,            \* the prompts of this iteration whose ask() returned None
    console,              \* what console.print showed in this iteration
    writes,               \* the open(filename, 'w') calls of this iteration: <<ok>> each
    price_text,           \* the text typed at the price prompt
    validation            \* what the validator said of the text or selection

vars == <<pc, templates_dir, template_files, templates, template_name, user_input,
          selected_categories, receiving_categories, conditional_data, po_data,
          filename, confirm, now, asked, cancelled, console, writes, price_text,
          validation>>

-----------------------------------------------------------------------------
(* Python values *)

None == [none |-> TRUE]
Some(v) == [v |-> v]
IsNone(x) == x = None
\* x or '' : the value, or the empty text when x is None (or already empty)
OrEmpty(x, empty) == IF IsNone(x) THEN empty ELSE x.v

\* dict operations
Has(d, k) == k \in DOMAIN d
Put(d, k, v) == [x \in (DOMAIN d) \cup {k} |-> IF x = k THEN v ELSE d[x]]
Pop(d, k) == [x \in (DOMAIN d) \ {k} |-> d[x]]
EmptyDict == << >>
\* d[k] = v when cond holds
PutIf(d, cond, k, v) == IF cond THEN Put(d, k, v) ELSE d

\* list[0][k] = v
PutFirst(list, k, v) == [list EXCEPT ![1] = Put(list[1], k, v)]

-----------------------------------------------------------------------------
(* Texts as character sequences *)

DigitChars == <<"0", "1", "2", "3", "4", "5", "6", "7", "8", "9">>
IsDigit(c) == \E i \in 1..10 : DigitChars[i] = c
DigitValue(c) == (CHOOSE i \in 1..10 : DigitChars[i] = c) - 1
IsSpace(c) == c = " "

RECURSIVE LStrip(_)
LStrip(s) == IF s # << >> /\ IsSpace(Head(s)) THEN LStrip(Tail(s)) ELSE s
RECURSIVE RStrip(_)
RStrip(s) ==
    IF s # << >> /\ IsSpace(s[Len(s)]) THEN RStrip(SubSeq(s, 1, Len(s) - 1)) ELSE s
\* str.strip()
Strip(s) == RStrip(LStrip(s))

\* all texts over an alphabet, of at most n characters
RECURSIVE TextsUpTo(_, _)
TextsUpTo(alphabet, n) ==
    IF n = 0 THEN {<< >>}
    ELSE LET shorter == TextsUpTo(alphabet, n - 1)
         IN  shorter \cup {Append(s, c) : s \in shorter, c \in alphabet}

-----------------------------------------------------------------------------
(* Numbers: float(text) and f"{x:.2f}" *)

Lower(c) ==
    CASE c = "I" -> "i" [] c = "N" -> "n" [] c = "F" -> "f" [] c = "A" -> "a"
      [] c = "T" -> "t" [] c = "Y" -> "y" [] OTHER -> c
LowerText(s) == [i \in 1..Len(s) |-> Lower(s[i])]

RECURSIVE Pow10(_)
Pow10(n) == IF n = 0 THEN 1 ELSE 10 * Pow10(n - 1)

\* the digits of a text, as a number (the decimal point skipped)
RECURSIVE DigitsToNat(_)
DigitsToNat(s) ==
    IF s = << >> THEN 0
    ELSE IF s[Len(s)] = "." THEN DigitsToNat(SubSeq(s, 1, Len(s) - 1))
    ELSE 10 * DigitsToNat(SubSeq(s, 1, Len(s) - 1)) + DigitValue(s[Len(s)])

\* the number of digits after the decimal point
FractionDigits(s) ==
    IF \E i \in 1..Len(s) : s[i] = "."
    THEN Len(s) - (CHOOSE i \in 1..Len(s) : s[i] = ".")
    ELSE 0

\* a decimal numeral: digits with at most one point and at least one digit
IsDecimalNumeral(s) ==
    /\ \A i \in 1..Len(s) : IsDigit(s[i]) \/ s[i] = "."
    /\ Cardinality({i \in 1..Len(s) : s[i] = "."}) <= 1
    /\ \E i \in 1..Len(s) : IsDigit(s[i])

\* float(text): surrounding whitespace is ignored, a sign may lead, then "inf",
\* "infinity" or "nan" in any case, or a decimal numeral.  Anything else raises
\* ValueError (ok = FALSE).  Exponents and digit-group underscores, which float()
\* also reads, are outside PriceAlphabet and are not modelled.
\* A finite value is mantissa / 10^scale, negated when negative.
PyFloat(text) ==
    LET s == Strip(text)
        signed == s # << >> /\ Head(s) \in {"-", "+"}
        negative == s # << >> /\ Head(s) = "-"
        body == LowerText(IF signed THEN Tail(s) ELSE s)
    IN  IF body \in {<<"i", "n", "f">>, <<"i", "n", "f", "i", "n", "i", "t", "y">>}
        THEN [ok |-> TRUE, kind |-> "inf", negative |-> negative, mantissa |-> 0, scale |-> 0]
        ELSE IF body = <<"n", "a", "n">>
        THEN [ok |-> TRUE, kind |-> "nan", negative |-> negative, mantissa |-> 0, scale |-> 0]
        ELSE IF IsDecimalNumeral(body)
        THEN [ok |-> TRUE, kind |-> "finite", negative |-> negative,
              mantissa |-> DigitsToNat(body), scale |-> FractionDigits(body)]
        ELSE [ok |-> FALSE, kind |-> "ValueError", negative |-> FALSE,
              mantissa |-> 0, scale |-> 0]

\* x > 0 for a float x: false for nan, for zero and for every negative value
FloatPositive(f) ==
    \/ f.kind = "inf" /\ ~f.negative
    \/ f.kind = "finite" /\ ~f.negative /\ f.mantissa > 0

\* the decimal digits of a natural number
RECURSIVE NatToDigits(_)
NatToDigits(n) ==
    IF n < 10 THEN <<DigitChars[n + 1]>>
    ELSE Append(NatToDigits(n \div 10), DigitChars[(n % 10) + 1])

\* |x| in hundredths, rounded to the nearest.  A value halfway between two
\* hundredths is rounded by Python on the binary double nearest to it; no text over
\* PriceAlphabet is halfway (the alphabet has no "5"), and for the halfway values
\* a double holds exactly the rounding is to the even hundredth, as written here.
Hundredths(f) ==
    IF f.scale <= 2 THEN f.mantissa * Pow10(2 - f.scale)
    ELSE LET unit == Pow10(f.scale - 2)
             q == f.mantissa \div unit
             r == f.mantissa % unit
         IN  IF 2 * r > unit \/ (2 * r = unit /\ q % 2 = 1) THEN q + 1 ELSE q

\* f"{x:.2f}"
FormatTwoPlaces(f) ==
    LET sign == IF f.negative THEN <<"-">> ELSE << >>
        h == Hundredths(f)
    IN  IF f.kind = "inf" THEN sign \o <<"i", "n", "f">>
        ELSE IF f.kind = "nan" THEN <<"n", "a", "n">>
        ELSE sign \o NatToDigits(h \div 100) \o <<".">>
                  \o <<DigitChars[((h \div 10) % 10) + 1], DigitChars[(h % 10) + 1]>>

-----------------------------------------------------------------------------
(* Validators *)

Valid == [valid |-> TRUE, message |-> ""]
Invalid(message) == [valid |-> FALSE, message |-> message]

validate_price(text) ==
    IF Strip(text) = << >> THEN Invalid("Price is required")
    ELSE LET price == PyFloat(Strip(text))
         IN  IF ~price.ok THEN Invalid("Please enter a valid price (e.g., 25.99)")
             ELSE IF FloatPositive(price) THEN Valid
             ELSE Invalid("Price must be greater than 0")

\* Characters outside ASCII for which str.isdigit() is true, each written by its
\* code point: SUPERSCRIPT TWO, ARABIC-INDIC DIGIT THREE
NonAsciiDigits == {"U+00B2", "U+0663"}

\* str.isdigit() on one character
StrIsDigit(c) == IsDigit(c) \/ c \in NonAsciiDigits

validate_user_id(text) ==
    IF Len(Strip(text)) = 9 /\ \A i \in 1..Len(Strip(text)) : StrIsDigit(Strip(text)[i])
    THEN Valid
    ELSE Invalid("User ID must be exactly 9 digits")

\* "x in list"
InList(x, list) == \E i \in 1..Len(list) : list[i] = x

\* the validator without its second check
validate_categories_nonempty(selected) ==
    IF selected = << >> THEN Invalid("Please select at least one category")
    ELSE Valid

validate_receiving_categories(selected) ==
    IF selected = << >> THEN Invalid("Please select at least one category")
    ELSE IF InList("None", selected) /\ Len(selected) > 1
    THEN Invalid("Cannot select 'None' with other categories")
    ELSE Valid

-----------------------------------------------------------------------------
(* The interview: get_user_input *)

\* get_user_input: subjects
subjects ==
    <<"Archives", "Architecture", "Art", "Biology", "Book Art", "Business",
      "Chemistry", "Communications", "Computer Science", "Cooking", "Dance",
      "Data Science", "Economics", "Education", "English Language Studies",
      "Entrepreneurship", "Environmental Science", "Ethnic Studies", "Fiction",
      "Game Design", "General", "General Science", "Graphic Novels",
      "Health Sciences", "History", "Juvenile", "Library Science", "Mathematics",
      "Music", "Philosophy", "Poetry", "Political Science", "Psychology",
      "Public Policy", "Religion", "Sociology", "Theatre", "WGSS">>

\* the "Other" choice of the quantity menu
Other == [other |-> TRUE]

\* The prompts of get_user_input, in the order asked.  `a` holds, for every
\* prompt, what its ask() returns (None: the user cancelled it), and the lookup
\* collaborator's availability and reply.
PromptsOfUserInput(a) ==
    {"Vendor code", "Vendor account", "Vendor reference", "Title", "Author", "ISBN",
     "Publisher", "Publication year", "Price", "Quantity", "Reporting code"}
    \cup (IF a.oclc_available THEN {"Search OCLC"} ELSE {})
    \cup (IF a.oclc_available /\ a.use_oclc = Some(TRUE) THEN {"OCLC number"} ELSE {})
    \cup (IF a.quantity_choice = Other THEN {"Enter quantity"} ELSE {})

AnswerTo(a, prompt) ==
    CASE prompt = "Vendor code" -> a.vendor_code
      [] prompt = "Vendor account" -> a.vendor_account
      [] prompt = "Vendor reference" -> a.vendor_ref
      [] prompt = "Search OCLC" -> a.use_oclc
      [] prompt = "OCLC number" -> a.oclc_number
      [] prompt = "Title" -> a.title
      [] prompt = "Author" -> a.author
      [] prompt = "ISBN" -> a.isbn
      [] prompt = "Publisher" -> a.publisher
      [] prompt = "Publication year" -> a.publication_year
      [] prompt = "Price" -> a.price
      [] prompt = "Quantity" -> a.quantity_choice
      [] prompt = "Enter quantity" -> a.quantity_text
      [] prompt = "Reporting code" -> a.reporting_code

\* used_oclc_number: oclc_data.get('oclc_number') after a lookup that returned
\* data (None: the collaborator is absent, the user declined, or nothing found)
UsedOclcNumber(a) ==
    IF /\ a.oclc_available
       /\ a.use_oclc = Some(TRUE)
       /\ ~IsNone(a.oclc_number)
       /\ ~IsNone(a.oclc_data)
    THEN (IF Has(a.oclc_data.v, "oclc_number")
          THEN Some(a.oclc_data.v["oclc_number"]) ELSE None)
    ELSE None

\* get_user_input.  No prompt's None ends the function: every prompt is asked and
\* the dict is built from `answer or ''`.  int(quantity) raises TypeError when the
\* "Enter quantity" prompt returned None.
get_user_input(a) ==
    LET prompts == PromptsOfUserInput(a)
        raised == a.quantity_choice = Other /\ IsNone(a.quantity_text)
        quantity ==
            IF a.quantity_choice = Other
            THEN (IF raised THEN None ELSE Some(DigitsToNat(a.quantity_text.v)))
            ELSE a.quantity_choice
    IN  [raised |-> raised,
         asked |-> IF raised THEN prompts \ {"Reporting code"} ELSE prompts,
         cancelled |-> {q \in prompts : IsNone(AnswerTo(a, q))}
                          \ (IF raised THEN {"Reporting code"} ELSE {}),
         user_input |->
            [vendor_code |-> OrEmpty(a.vendor_code, ""),
             vendor_account |-> OrEmpty(a.vendor_account, ""),
             title |-> OrEmpty(a.title, << >>),
             author |-> OrEmpty(a.author, ""),
             price |-> OrEmpty(a.price, << >>),
             vendor_reference_number |-> OrEmpty(a.vendor_ref, << >>),
             isbn |-> OrEmpty(a.isbn, ""),
             publisher |-> OrEmpty(a.publisher, ""),
             publication_year |-> OrEmpty(a.publication_year, ""),
             quantity |-> quantity,
             reporting_code |-> OrEmpty(a.reporting_code, ""),
             oclc_number |-> UsedOclcNumber(a)]]

-----------------------------------------------------------------------------
(* The interview: get_receiving_note_categories *)

\* get_receiving_note_categories: categories
categories == <<"None", "Note", "Interested User", "Reserve", "Display", "Replacement">>

\* " | ".join(list)
RECURSIVE Join(_)
Join(list) ==
    IF list = << >> THEN ""
    ELSE IF Len(list) = 1 THEN list[1]
    ELSE list[1] \o " | " \o Join(Tail(list))

\* the collection with if / elif / elif: only the first selected branch is taken
ConditionalDataFirstBranch(sel, a) ==
    IF InList("Interested User", sel)
    THEN Put(EmptyDict, "interested_user",
             [user_id |-> a.user_id, notify |-> a.notify, hold |-> a.hold])
    ELSE IF InList("Note", sel)
    THEN Put(EmptyDict, "additional_notes", OrEmpty(a.additional_notes, ""))
    ELSE IF InList("Reserve", sel)
    THEN Put(EmptyDict, "reserve_note", OrEmpty(a.reserve_note, ""))
    ELSE EmptyDict

\* get_receiving_note_categories, "CONDITIONAL DATA COLLECTION": three ifs, one
\* after the other, over the selected list `sel`; `a` holds what the conditional
\* prompts return
ConditionalDataOf(sel, a) ==
    PutIf(PutIf(PutIf(EmptyDict,
        InList("Interested User", sel), "interested_user",
            [user_id |-> a.user_id, notify |-> a.notify, hold |-> a.hold]),
        InList("Note", sel), "additional_notes", OrEmpty(a.additional_notes, "")),
        InList("Reserve", sel), "reserve_note", OrEmpty(a.reserve_note, ""))

\* the conditional prompts asked for the selected list
ConditionalPrompts(sel) ==
    (IF InList("Interested User", sel) THEN {"User ID", "Notify user", "Hold item"} ELSE {})
    \cup (IF InList("Note", sel) THEN {"Additional notes"} ELSE {})
    \cup (IF InList("Reserve", sel) THEN {"Reserve note"} ELSE {})

ConditionalAnswer(a, prompt) ==
    CASE prompt = "User ID" -> a.user_id
      [] prompt = "Notify user" -> a.notify
      [] prompt = "Hold item" -> a.hold
      [] prompt = "Additional notes" -> a.additional_notes
      [] prompt = "Reserve note" -> a.reserve_note

\* get_receiving_note_categories.  `selected` is what the checkbox returned (None:
\* cancelled, else a list that validate_receiving_categories accepted), `a` the
\* answers of the conditional prompts.
get_receiving_note_categories(selected, a) ==
    IF (IF IsNone(selected) THEN TRUE
        ELSE selected.v = << >> \/ InList("None", selected.v))
    THEN [category_string |-> "None", conditional_data |-> EmptyDict,
          asked |-> {"Categories"},
          cancelled |-> IF IsNone(selected) THEN {"Categories"} ELSE {}]
    ELSE [category_string |-> Join(selected.v),
          conditional_data |-> ConditionalDataOf(selected.v, a),
          asked |-> {"Categories"} \cup ConditionalPrompts(selected.v),
          cancelled |-> {q \in ConditionalPrompts(selected.v) :
                            IsNone(ConditionalAnswer(a, q))}]

-----------------------------------------------------------------------------
(* The template merge: customize_template *)

\* A JSON text standing where a template conventionally holds an object (a
\* "vendor" that is not a mapping).
JsonText(s) == [json_text |-> s]
IsMapping(v) == ~Has(v, "json_text")

\* template.copy() in place of the deep copy: a new top-level dict whose nested
\* lists and dicts are the template's own
ShallowCopy(template) == [shares |-> "nested", value |-> template]

\* json.loads(json.dumps(template)): a new object tree.  A template comes from
\* json.load, so it holds only str keys, str, int, bool, None, list and dict
\* values, each of which dumps and loads back to an equal value; what the copy
\* shares with the template is nothing.
DeepCopy(template) == [shares |-> "nothing", value |-> template]

\* the nested objects that the merge writes into in place
WrittenInPlace == {"vendor", "resource_metadata", "fund_distribution", "location"}

\* The template object after a merge that worked on `copy` and ended with
\* po_data: untouched when the copy shares nothing with it; its nested objects as
\* the merge left them when the copy shares them; po_data when the copy is the
\* template itself.
TemplateAfter(template, copy, po) ==
    CASE copy.shares = "nothing" -> template
      [] copy.shares = "nested" ->
            [k \in DOMAIN template |->
                IF k \in WrittenInPlace /\ Has(po, k) THEN po[k] ELSE template[k]]
      [] copy.shares = "all" -> po

\* the price as the merge stores it: two decimal places, or the text as it is
\* when float() raises ValueError
FormatPrice(price) ==
    LET price_float == PyFloat(price)
    IN  IF price_float.ok THEN FormatTwoPlaces(price_float) ELSE price

Amount(price) == [sum |-> price, currency |-> [value |-> "USD"]]

\* the notes list with the reserve note stored as typed, without its prefix
NotesUnprefixed(cond_data) ==
    (IF Has(cond_data, "additional_notes")
        /\ cond_data["additional_notes"] # ""
     THEN <<[note_text |-> cond_data["additional_notes"]]>> ELSE << >>)
    \o (IF Has(cond_data, "reserve_note") /\ cond_data["reserve_note"] # ""
        THEN <<[note_text |-> cond_data["reserve_note"]]>>
        ELSE << >>)

\* the notes list of customize_template
Notes(cond_data) ==
    (IF Has(cond_data, "additional_notes")
        /\ cond_data["additional_notes"] # ""
     THEN <<[note_text |-> cond_data["additional_notes"]]>> ELSE << >>)
    \o (IF Has(cond_data, "reserve_note") /\ cond_data["reserve_note"] # ""
        THEN <<[note_text |-> "Reserve Note: " \o cond_data["reserve_note"]]>>
        ELSE << >>)

\* the interested_user entry of customize_template
InterestedUser(user_info) ==
    <<[primary_id |-> user_info.user_id,
       notify_receiving_activation |-> user_info.notify,
       hold_item |-> user_info.hold,
       notify_renewal |-> Some(FALSE),
       notify_cancel |-> Some(FALSE)]>>

\* the block with every collected value assigned, empty or not
ResourceMetadataBlanking(po, input) ==
    PutIf(Put(Put(Put(Put(
        Put(IF Has(po, "resource_metadata") THEN po["resource_metadata"] ELSE EmptyDict,
            "title", input.title),
        "author", input.author),
        "isbn", input.isbn),
        "publisher", input.publisher),
        "publication_year", input.publication_year),
        (IF IsNone(input.oclc_number) THEN FALSE ELSE input.oclc_number.v # ""),
        "system_control_number", <<input.oclc_number.v>>)

\* customize_template, "BIBLIOGRAPHIC METADATA": the resource_metadata block
ResourceMetadata(po, input) ==
    PutIf(PutIf(PutIf(PutIf(PutIf(
        Put(IF Has(po, "resource_metadata") THEN po["resource_metadata"] ELSE EmptyDict,
            "title", input.title),
        input.author # "", "author", input.author),
        input.isbn # "", "isbn", input.isbn),
        input.publisher # "", "publisher", input.publisher),
        input.publication_year # "", "publication_year", input.publication_year),
        (IF IsNone(input.oclc_number) THEN FALSE ELSE input.oclc_number.v # ""),
        "system_control_number", <<input.oclc_number.v>>)

\* the days that timedelta(days=30) adds
ReceiptDays == 30

\* customize_template: po_data.pop('_description', None); po_data.pop('_template_version', None)
RemoveMetadata(po) == Pop(Pop(po, "_description"), "_template_version")

\* po_data['vendor']['value'] = ... raises KeyError on a record without "vendor"
\* and TypeError on one whose "vendor" is not a mapping
VendorRaises(po) == IF Has(po, "vendor") THEN ~IsMapping(po["vendor"]) ELSE TRUE

\* customize_template, "VENDOR INFORMATION"
VendorInformation(po, input) ==
    Put(Put(po, "vendor", Put(po["vendor"], "value", input.vendor_code)),
        "vendor_account", input.vendor_account)

\* customize_template, "BIBLIOGRAPHIC METADATA"
BibliographicMetadata(po, input) ==
    Put(po, "resource_metadata", ResourceMetadata(po, input))

\* customize_template, "PRICING": price is the formatted price
Pricing(po, price) ==
    PutIf(Put(po, "price", Amount(price)),
          (IF Has(po, "fund_distribution") THEN po["fund_distribution"] # << >> ELSE FALSE),
          "fund_distribution", PutFirst(po["fund_distribution"], "amount", Amount(price)))

\* customize_template, "ORDER DETAILS"
OrderDetails(po, input) ==
    PutIf(PutIf(po, input.vendor_reference_number # << >>,
                "vendor_reference_number", input.vendor_reference_number),
          (IF Has(po, "location") THEN po["location"] # << >> ELSE FALSE),
          "location", PutFirst(po["location"], "quantity", input.quantity))

\* customize_template, "RECEIVING NOTE"
ReceivingNote(po, category_string) ==
    Put(po, "receiving_note", IF category_string # "None" THEN category_string ELSE "")

\* the handling without its else branch: a template's interested_user stays
ConditionalDataKeepsUser(po, cond_data) ==
    PutIf(PutIf(po, Notes(cond_data) # << >>, "note", Notes(cond_data)),
          Has(cond_data, "interested_user"),
          "interested_user", InterestedUser(cond_data["interested_user"]))

\* customize_template, "CONDITIONAL DATA HANDLING"
ConditionalData(po, cond_data) ==
    IF Has(cond_data, "interested_user")
    THEN Put(PutIf(po, Notes(cond_data) # << >>, "note", Notes(cond_data)),
             "interested_user", InterestedUser(cond_data["interested_user"]))
    ELSE Pop(PutIf(po, Notes(cond_data) # << >>, "note", Notes(cond_data)),
             "interested_user")

\* customize_template, "SYSTEM FIELDS".  A date is the number of its day.
SystemFields(po, input) ==
    PutIf(Put(po, "expected_receipt_date", now + ReceiptDays),
          input.reporting_code # "", "reporting_code", input.reporting_code)

\* what a call of customize_template leaves: the record it returns, and the
\* template object as the call leaves it
Merged(template, copy, po) ==
    [raised |-> FALSE, po_data |-> Some(po), template |-> TemplateAfter(template, copy, po)]
Raised(template, copy, po) ==
    [raised |-> TRUE, po_data |-> None, template |-> TemplateAfter(template, copy, po)]

\* customize_template.  input, category_string and cond_data are the user_input,
\* receiving_categories and conditional_data of the source.
customize_template(template, input, category_string, cond_data) ==
    LET copy == DeepCopy(template)
    IN  IF VendorRaises(RemoveMetadata(copy.value))
        THEN Raised(template, copy, RemoveMetadata(copy.value))
        ELSE Merged(template, copy,
                SystemFields(
                    ConditionalData(
                        ReceivingNote(
                            OrderDetails(
                                Pricing(
                                    BibliographicMetadata(
                                        VendorInformation(RemoveMetadata(copy.value), input),
                                        input),
                                    FormatPrice(input.price)),
                                input),
                            category_string),
                        cond_data),
                    input))

-----------------------------------------------------------------------------
(* File names, summary and persistence *)

Letters ==
    {"a", "b", "c", "d", "e", "f", "g", "h", "i", "j", "k", "l", "m", "n", "o", "p",
     "q", "r", "s", "t", "u", "v", "w", "x", "y", "z", "A", "B", "C", "D", "E", "F",
     "G", "H", "I", "J", "K", "L", "M", "N", "O", "P", "Q", "R", "S", "T", "U", "V",
     "W", "X", "Y", "Z"}
\* \w of re, on ASCII text
IsWordChar(c) == c \in Letters \/ IsDigit(c) \/ c = "_"

\* re.sub(r'\s+', '_', s)
RECURSIVE CollapseSpaces(_)
CollapseSpaces(s) ==
    IF s = << >> THEN << >>
    ELSE IF IsSpace(Head(s)) THEN <<"_">> \o CollapseSpaces(LStrip(s))
    ELSE <<Head(s)>> \o CollapseSpaces(Tail(s))

\* s[:n]
Truncate(s, n) == SubSeq(s, 1, IF Len(s) < n THEN Len(s) ELSE n)

TitleLimit == 30
VendorRefLimit == 15

KeepTitleChar(c) == IsWordChar(c) \/ IsSpace(c) \/ c = "-"
KeepVendorRefChar(c) == IsWordChar(c) \/ c = "-"

\* generate_filename: the parts of f"generic_{clean_title}_{clean_vendor_ref}_{timestamp}.json";
\* the timestamp is the clock's reading
generate_filename(input) ==
    LET clean_title ==
            Truncate(CollapseSpaces(Strip(SelectSeq(input.title, KeepTitleChar))), TitleLimit)
        vendor_ref == IF Has(input, "vendor_reference_number")
                      THEN input.vendor_reference_number
                      ELSE <<"n", "o", "r", "e", "f">>
        clean_vendor_ref == Truncate(SelectSeq(vendor_ref, KeepVendorRefChar), VendorRefLimit)
    IN  [prefix |-> "generic", clean_title |-> clean_title,
         clean_vendor_ref |-> clean_vendor_ref, timestamp |-> now, extension |-> ".json"]

\* display_summary only reads; po_data.get('location', [{}])[0] raises IndexError
\* when the record holds an empty location list
DisplaySummaryRaises(po) == Has(po, "location") /\ po["location"] = << >>

\* save_po_file with "return True" after the try statement: the exception is
\* caught and reported, and the caller is told the file was written
save_po_file_always_true(po, name, write_ok) ==
    IF write_ok THEN [returned |-> TRUE, console |-> {}]
    ELSE [returned |-> TRUE, console |-> {"Error saving file"}]

\* save_po_file: open and json.dump succeed (write_ok) or raise; the exception is
\* caught and reported
save_po_file(po, name, write_ok) ==
    IF write_ok THEN [returned |-> TRUE, console |-> {}]
    ELSE [returned |-> FALSE, console |-> {"Error saving file"}]

-----------------------------------------------------------------------------
(* The template store *)

\* a file of the directory: its base name, its extension, and what json.load
\* makes of it (None: open or json.load raises)
File(base, ext, content) == [base |-> base, ext |-> ext, content |-> content]

IsJsonFile(f) == f.ext = ".json"

\* the loop with the try around it instead of inside it: the first malformed
\* file ends the loading
RECURSIVE LoadUntilError(_, _)
LoadUntilError(files, loaded) ==
    IF files = << >> THEN loaded
    ELSE IF IsNone(Head(files).content) THEN loaded
    ELSE LoadUntilError(Tail(files), Put(loaded, Head(files).base, Head(files).content.v))

\* the loop of load_templates over template_files
RECURSIVE LoadEach(_, _)
LoadEach(files, loaded) ==
    IF files = << >> THEN loaded
    ELSE LoadEach(Tail(files),
                  IF IsNone(Head(files).content) THEN loaded
                  ELSE Put(loaded, Head(files).base, Head(files).content.v))

\* load_templates, given what find_templates_directory returns and the files of
\* that directory
load_templates(dir, files) ==
    IF IsNone(dir) THEN EmptyDict
    ELSE LET globbed == SelectSeq(files, IsJsonFile)
         IN  IF globbed = << >> THEN EmptyDict ELSE LoadEach(globbed, EmptyDict)

\* select_template builds a choice for every template before it asks:
\* template.get('material_type', {}).get(...) and template.get('vendor', {}).get(...)
\* raise AttributeError on a value that is not a mapping
SelectTemplateRaises(loaded) ==
    \E name \in DOMAIN loaded :
        \/ Has(loaded[name], "material_type") /\ ~IsMapping(loaded[name]["material_type"])
        \/ Has(loaded[name], "vendor") /\ ~IsMapping(loaded[name]["vendor"])

-----------------------------------------------------------------------------
(* Bounds, and the inputs drawn within them *)

MaxFiles == 2         \* files in the templates directory
MaxListLen == 2       \* elements of a template's fund_distribution and location lists
MaxDeviations == 1    \* features of a template that differ from the plain ones
MaxPriceLen == 3      \* characters typed at the price prompt
MaxNow == 1           \* the day of the run
MaxPadding == 1       \* blanks typed before and after a user id
MaxRepeats == 12      \* repetitions of a word in a typed title or vendor reference

\* the records that differ from base in at most k fields, each field f taking
\* its other values from alternatives[f]
RECURSIVE Variants(_, _, _)
Variants(base, alternatives, k) ==
    IF k = 0 THEN {base}
    ELSE LET fewer == Variants(base, alternatives, k - 1)
         IN  fewer \cup
             UNION {UNION {{[r EXCEPT ![f] = v] : v \in alternatives[f]}
                           : f \in DOMAIN alternatives}
                    : r \in fewer}

OldPrice == <<"1", ".", "0", "0">>
OldUserId == <<"9", "8", "7", "6", "5", "4", "3", "2", "1">>

\* A template, by what it holds: vendor and material_type "mapping", "absent" or
\* "text"; funds and locations the lengths of the two lists (-1: no such field);
\* metadata "absent", "title" (a resource_metadata with a title only) or "full".
TemplateFunds(n) ==
    [i \in 1..n |-> [fund_code |-> [value |-> "FUND"], percent |-> 100 \div i,
                     amount |-> Amount(OldPrice)]]
TemplateLocations(n) ==
    [i \in 1..n |-> [shelving_location |-> "stacks", copy |-> i, quantity |-> Some(1)]]
TemplateInterestedUser ==
    <<[primary_id |-> Some(OldUserId), notify_receiving_activation |-> Some(TRUE),
       hold_item |-> Some(TRUE), notify_renewal |-> Some(TRUE),
       notify_cancel |-> Some(TRUE)]>>
TemplateMetadata(kind) ==
    IF kind = "full"
    THEN [title |-> <<"O">>, author |-> "Old author", isbn |-> "0306406152",
          publisher |-> "Old press", publication_year |-> "1999"]
    ELSE [title |-> <<"O">>]
TemplateOf(f) ==
    PutIf(PutIf(PutIf(PutIf(PutIf(PutIf(PutIf(PutIf(PutIf(PutIf(PutIf(
        [owner |-> [value |-> "MAIN"], type |-> [value |-> "PRINTED_BOOK_OT"]],
        f.description, "_description", "Book order"),
        f.description, "_template_version", "1.0"),
        f.vendor # "absent", "vendor",
            IF f.vendor = "mapping" THEN [value |-> "V0"] ELSE JsonText("V0")),
        f.material_type # "absent", "material_type",
            IF f.material_type = "mapping" THEN [value |-> "BOOK"] ELSE JsonText("BOOK")),
        f.funds >= 0, "fund_distribution", TemplateFunds(f.funds)),
        f.locations >= 0, "location", TemplateLocations(f.locations)),
        f.note, "note", <<[note_text |-> "Template note"]>>),
        f.interested_user, "interested_user", TemplateInterestedUser),
        f.metadata # "absent", "resource_metadata", TemplateMetadata(f.metadata)),
        f.vendor_reference, "vendor_reference_number", <<"R", "0">>),
        f.vendor_reference, "receiving_note", "Template receiving note")

RichFeatures ==
    [description |-> TRUE, vendor |-> "mapping", material_type |-> "mapping",
     funds |-> MaxListLen, locations |-> MaxListLen, note |-> TRUE,
     interested_user |-> TRUE, metadata |-> "full", vendor_reference |-> TRUE]
MinimalFeatures ==
    [description |-> FALSE, vendor |-> "mapping", material_type |-> "absent",
     funds |-> -1, locations |-> -1, note |-> FALSE,
     interested_user |-> FALSE, metadata |-> "absent", vendor_reference |-> FALSE]
FeatureAlternatives ==
    [description |-> BOOLEAN, vendor |-> {"mapping", "absent", "text"},
     material_type |-> {"mapping", "absent", "text"},
     funds |-> -1..MaxListLen, locations |-> -1..MaxListLen, note |-> BOOLEAN,
     interested_user |-> BOOLEAN, metadata |-> {"absent", "title", "full"},
     vendor_reference |-> BOOLEAN]

RichTemplate == TemplateOf(RichFeatures)
MinimalTemplate == TemplateOf(MinimalFeatures)

\* the templates the merge is tried on
MergeTemplates ==
    {TemplateOf(f) : f \in Variants(RichFeatures, FeatureAlternatives, MaxDeviations)
                          \cup Variants(MinimalFeatures, FeatureAlternatives, MaxDeviations)}

\* the files a templates directory may hold
FilePool ==
    {File("book", ".json", Some(RichTemplate)),
     File("dvd", ".json", Some(MinimalTemplate)),
     File("broken", ".json", None),
     File("notes", ".txt", Some(RichTemplate)),
     File("novendor", ".json", Some(TemplateOf([RichFeatures EXCEPT !.vendor = "absent"]))),
     File("nocopies", ".json", Some(TemplateOf([RichFeatures EXCEPT !.locations = 0]))),
     File("oddvendor", ".json", Some(TemplateOf([MinimalFeatures EXCEPT !.vendor = "text"])))}

\* the listings of a directory: at most n files of the pool, in any order
RECURSIVE Listings(_)
Listings(n) ==
    IF n = 0 THEN {<< >>}
    ELSE LET shorter == Listings(n - 1)
         IN  shorter \cup
             {Append(l, f) : l \in {x \in shorter : Len(x) = n - 1},
                             f \in FilePool}

DistinctNames(l) == \A i, j \in 1..Len(l) : i # j => l[i].base # l[j].base
DirectoryListings == {l \in Listings(MaxFiles) : DistinctNames(l)}

\* The usual answers of an interview, and for every prompt the other answers
\* tried (None: the prompt is cancelled).  oclc_available and oclc_data are the
\* lookup collaborator's: whether it is there, and what a search returns.
UsualAnswers ==
    [vendor_code |-> Some("hacky-m"), vendor_account |-> Some("hacky-m-01"),
     vendor_ref |-> Some(<<"I", "N", "V", "-", "1">>),
     oclc_available |-> FALSE, use_oclc |-> Some(TRUE), oclc_number |-> Some("1234"),
     oclc_data |-> Some([title |-> <<"G", "o">>, oclc_number |-> "1234"]),
     title |-> Some(<<"G", "o">>), author |-> Some("A. Author"), isbn |-> Some(""),
     publisher |-> Some(""), publication_year |-> Some(""),
     price |-> Some(<<"2", "9">>), quantity_choice |-> Other,
     quantity_text |-> Some(<<"7">>), reporting_code |-> Some("Art")]
OtherAnswers ==
    [vendor_code |-> {None}, vendor_account |-> {None},
     vendor_ref |-> {None, Some(<< >>)},
     oclc_available |-> {TRUE}, use_oclc |-> {None, Some(FALSE)}, oclc_number |-> {None},
     oclc_data |-> {None, Some([title |-> <<"G", "o">>])},
     title |-> {None}, author |-> {None, Some("")},
     isbn |-> {None, Some("0306406152")}, publisher |-> {None, Some("Old press")},
     publication_year |-> {None, Some("1999")},
     price |-> {None, Some(<<"i", "n", "f">>), Some(<<".", "2">>)},
     quantity_choice |-> {None, Some(1), Some(2)},
     quantity_text |-> {None}, reporting_code |-> {None}]

\* what the prompts' validators let through (a cancelled prompt validates nothing)
PassesValidators(a) ==
    /\ IsNone(a.vendor_code) \/ a.vendor_code.v # ""
    /\ IsNone(a.vendor_account) \/ a.vendor_account.v # ""
    /\ IsNone(a.title) \/ Strip(a.title.v) # << >>
    /\ IsNone(a.price) \/ validate_price(a.price.v).valid
    /\ IsNone(a.quantity_text)
         \/ (/\ a.quantity_text.v # << >>
             /\ \A i \in 1..Len(a.quantity_text.v) : IsDigit(a.quantity_text.v[i])
             /\ DigitsToNat(a.quantity_text.v) > 0)
    /\ IsNone(a.reporting_code) \/ InList(a.reporting_code.v, subjects)

\* the usual answers, and the usual answers with one of them changed
OneChanged(base, alternatives) == Variants(base, alternatives, 1)

Interviews ==
    {a \in OneChanged(UsualAnswers, OtherAnswers) : PassesValidators(a)}

UsualUserId == <<"1", "2", "3", "4", "5", "6", "7", "8", "9">>
UsualConditionalAnswers ==
    [user_id |-> Some(UsualUserId), notify |-> Some(TRUE), hold |-> Some(FALSE),
     additional_notes |-> Some("Rush"), reserve_note |-> Some("Course 101")]
OtherConditionalAnswers ==
    [user_id |-> {None}, notify |-> {None, Some(FALSE)}, hold |-> {None, Some(TRUE)},
     additional_notes |-> {None, Some("")}, reserve_note |-> {None, Some("")}]
ConditionalInterviews ==
    {a \in OneChanged(UsualConditionalAnswers, OtherConditionalAnswers) :
        IsNone(a.user_id) \/ validate_user_id(a.user_id.v).valid}
\* the conditional answers tried in a run of main
MainConditionalInterviews ==
    {UsualConditionalAnswers, [UsualConditionalAnswers EXCEPT !.user_id = None]}

\* the lists a checkbox over `choices` can hand to its validator: the ticked
\* choices, in the order of the choices
RECURSIVE SubLists(_)
SubLists(choices) ==
    IF choices = << >> THEN {<< >>}
    ELSE LET rest == SubLists(Tail(choices))
         IN  rest \cup {<<Head(choices)>> \o r : r \in rest}
AllSelections == SubLists(categories)
\* the selections that decide which conditional prompts are asked
CoreSelections ==
    {<<"None">>} \cup (SubLists(<<"Note", "Interested User", "Reserve">>) \ {<< >>})
\* the selections tried in a run of main (None: the checkbox is cancelled)
MainSelections ==
    {None, Some(<<"None">>), Some(<<"Note", "Interested User", "Reserve">>),
     Some(<<"Display">>)}

PriceAlphabet == {"0", "2", "9", ".", "-", " ", "i", "n", "f", "a"}
PriceTexts == TextsUpTo(PriceAlphabet, MaxPriceLen)

-----------------------------------------------------------------------------
(* main *)

\* the variables that one iteration of main's loop assigns before it reads them
iteration == <<template_name, user_input, selected_categories, receiving_categories,
               conditional_data, po_data, filename, confirm, asked, cancelled,
               console, writes>>
environment == <<templates_dir, template_files, now>>
scratch == <<price_text, validation>>

\* "if x is not False:" in place of "if x:": a cancelled confirmation counts as yes
TruthyUnlessNo(x) == x # Some(FALSE)

\* "if x:" for an answer of confirm().ask()
Truthy(x) == x = Some(TRUE)

FreshIteration ==
    /\ template_name = None
    /\ user_input = None
    /\ selected_categories = None
    /\ receiving_categories = None
    /\ conditional_data = None
    /\ po_data = None
    /\ filename = None
    /\ confirm = None
    /\ asked = {}
    /\ cancelled = {}
    /\ console = {}
    /\ writes = << >>

StartIteration ==
    /\ template_name' = None
    /\ user_input' = None
    /\ selected_categories' = None
    /\ receiving_categories' = None
    /\ conditional_data' = None
    /\ po_data' = None
    /\ filename' = None
    /\ confirm' = None
    /\ asked' = {}
    /\ cancelled' = {}
    /\ console' = {}
    /\ writes' = << >>

Init ==
    /\ pc = "load_templates"
    /\ templates_dir \in {None, Some("templates")}
    /\ template_files \in (IF IsNone(templates_dir) THEN {<< >>} ELSE DirectoryListings)
    /\ templates = EmptyDict
    /\ now = 0
    /\ FreshIteration
    /\ price_text = << >>
    /\ validation = Valid

\* templates = load_templates(); if not templates: return
LoadTemplates ==
    /\ pc = "load_templates"
    /\ templates' = load_templates(templates_dir, template_files)
    /\ pc' = IF DOMAIN templates' = {} THEN "exit" ELSE "select_template"
    /\ UNCHANGED <<iteration, environment, scratch>>

\* template_result = select_template(templates); if not template_result: break
SelectTemplate ==
    /\ pc = "select_template"
    /\ IF SelectTemplateRaises(templates)
       THEN /\ pc' = "crash"
            /\ UNCHANGED <<template_name, asked, cancelled, console>>
       ELSE \E answer \in {None} \cup {Some(name) : name \in DOMAIN templates} :
               /\ asked' = asked \cup {"Select a template"}
               /\ template_name' = answer
               /\ IF IsNone(answer)
                  THEN /\ cancelled' = cancelled \cup {"Select a template"}
                       /\ console' = console \cup {"Goodbye"}
                       /\ pc' = "exit"
                  ELSE /\ UNCHANGED <<cancelled, console>>
                       /\ pc' = "get_user_input"
    /\ UNCHANGED <<templates, user_input, selected_categories, receiving_categories,
                   conditional_data, po_data, filename, confirm, writes,
                   environment, scratch>>

\* user_input = get_user_input(); if not user_input: continue
GetUserInput ==
    /\ pc = "get_user_input"
    /\ \E a \in Interviews :
          LET r == get_user_input(a)
          IN  /\ asked' = asked \cup r.asked
              /\ cancelled' = cancelled \cup r.cancelled
              /\ IF r.raised
                 THEN /\ pc' = "crash"
                      /\ UNCHANGED <<user_input, template_name>>
                 ELSE IF DOMAIN r.user_input = {}
                 THEN /\ pc' = "select_template"
                      /\ user_input' = None
                      /\ template_name' = None
                 ELSE /\ pc' = "get_receiving_note_categories"
                      /\ user_input' = Some(r.user_input)
                      /\ UNCHANGED template_name
    /\ UNCHANGED <<templates, selected_categories, receiving_categories,
                   conditional_data, po_data, filename, confirm, console, writes,
                   environment, scratch>>

\* receiving_categories, conditional_data = get_receiving_note_categories()
Categories(selected, a) ==
    LET r == get_receiving_note_categories(selected, a)
    IN  /\ selected_categories' = selected
        /\ receiving_categories' = Some(r.category_string)
        /\ conditional_data' = Some(r.conditional_data)
        /\ asked' = asked \cup r.asked
        /\ cancelled' = cancelled \cup r.cancelled
        /\ pc' = "customize_template"
        /\ UNCHANGED <<templates, template_name, user_input, po_data, filename,
                       confirm, console, writes, environment, scratch>>

GetReceivingNoteCategories ==
    /\ pc = "get_receiving_note_categories"
    /\ \E selected \in MainSelections, a \in MainConditionalInterviews :
          /\ IF IsNone(selected) THEN TRUE
             ELSE validate_receiving_categories(selected.v).valid
          /\ Categories(selected, a)

\* po_data = customize_template(...); filename = generate_filename(user_input);
\* display_summary(...).  An exception of either call ends main.
Process ==
    /\ pc = "customize_template"
    /\ LET r == customize_template(templates[template_name.v], user_input.v,
                                   receiving_categories.v, conditional_data.v)
       IN  /\ templates' = [templates EXCEPT ![template_name.v] = r.template]
           /\ po_data' = r.po_data
           /\ IF r.raised
              THEN /\ pc' = "crash"
                   /\ UNCHANGED <<filename, console>>
              ELSE /\ filename' = Some(generate_filename(user_input.v))
                   /\ IF DisplaySummaryRaises(r.po_data.v)
                      THEN /\ pc' = "crash"
                           /\ UNCHANGED console
                      ELSE /\ console' = console \cup {"Order Summary"}
                           /\ pc' = "confirm"
    /\ UNCHANGED <<template_name, user_input, selected_categories,
                   receiving_categories, conditional_data, confirm, asked,
                   cancelled, writes, environment, scratch>>

\* confirm = questionary.confirm("Save this PO ...").ask(), and the if that
\* follows it.  write_ok: whether open and json.dump go through.
ConfirmSave ==
    /\ pc = "confirm"
    /\ \E answer \in {None, Some(TRUE), Some(FALSE)}, write_ok \in BOOLEAN :
          /\ confirm' = answer
          /\ asked' = asked \cup {"Save this PO"}
          /\ cancelled' = cancelled \cup (IF IsNone(answer) THEN {"Save this PO"} ELSE {})
          /\ IF Truthy(answer)
             THEN LET saved == save_po_file(po_data.v, filename.v, write_ok)
                  IN  /\ writes' = Append(writes, write_ok)
                      /\ console' = console \cup saved.console \cup
                            (IF saved.returned THEN {"Successfully created"}
                             ELSE {"Failed to save file"})
             ELSE /\ write_ok
                  /\ writes' = writes
                  /\ console' = console \cup {"File not saved"}
    /\ pc' = "another"
    /\ UNCHANGED <<templates, template_name, user_input, selected_categories,
                   receiving_categories, conditional_data, po_data, filename,
                   environment, scratch>>

\* another = questionary.confirm("Create another PO?").ask(); if not another: break.
\* Looping, every variable of the iteration is assigned again before it is read:
\* the next iteration starts from fresh ones.
CreateAnother ==
    /\ pc = "another"
    /\ \E answer \in {None, Some(TRUE), Some(FALSE)} :
          IF Truthy(answer)
          THEN /\ pc' = "select_template"
               /\ StartIteration
          ELSE /\ pc' = "exit"
               /\ asked' = asked \cup {"Create another PO?"}
               /\ cancelled' = cancelled \cup
                     (IF IsNone(answer) THEN {"Create another PO?"} ELSE {})
               /\ console' = console \cup {"Goodbye"}
               /\ UNCHANGED <<template_name, user_input, selected_categories,
                              receiving_categories, conditional_data, po_data,
                              filename, confirm, writes>>
    /\ UNCHANGED <<templates, environment, scratch>>

Next ==
    \/ LoadTemplates
    \/ SelectTemplate
    \/ GetUserInput
    \/ GetReceivingNoteCategories
    \/ Process
    \/ ConfirmSave
    \/ CreateAnother

Spec == Init /\ [][Next]_vars

-----------------------------------------------------------------------------
(* The category rules and the merge, tried on their own *)

\* a template with a candidate selection: every candidate list on the two plain
\* templates, and every template with the selections that decide the prompts
MergeCases ==
    ({RichTemplate, MinimalTemplate} \X AllSelections)
    \cup (MergeTemplates \X CoreSelections)

UsualInput == get_user_input(UsualAnswers).user_input

InitMerge ==
    /\ pc = "validate_receiving_categories"
    /\ \E c \in MergeCases :
          /\ templates = Put(EmptyDict, "template", c[1])
          /\ selected_categories = Some(c[2])
    /\ template_name = Some("template")
    /\ user_input = Some(UsualInput)
    /\ now \in 0..MaxNow
    /\ templates_dir = None
    /\ template_files = << >>
    /\ receiving_categories = None
    /\ conditional_data = None
    /\ po_data = None
    /\ filename = None
    /\ confirm = None
    /\ asked = {}
    /\ cancelled = {}
    /\ console = {}
    /\ writes = << >>
    /\ price_text = << >>
    /\ validation = Valid

\* the checkbox hands the ticked list to validate_receiving_categories and
\* returns it only when accepted
ValidateCategories ==
    /\ pc = "validate_receiving_categories"
    /\ validation' = validate_receiving_categories(selected_categories.v)
    /\ pc' = IF validation'.valid THEN "conditional_prompts" ELSE "rejected"
    /\ UNCHANGED <<templates, iteration, environment, price_text>>

\* get_receiving_note_categories on the accepted list
AskConditional ==
    /\ pc = "conditional_prompts"
    /\ \E a \in ConditionalInterviews : Categories(selected_categories, a)

NextMerge ==
    \/ ValidateCategories
    \/ AskConditional
    \/ Process

SpecMerge == InitMerge /\ [][NextMerge]_vars

-----------------------------------------------------------------------------
(* The price, from the prompt to the merged record *)

InitPrice ==
    /\ pc = "validate_price"
    /\ price_text \in PriceTexts
    /\ \E t \in {RichTemplate, MinimalTemplate} : templates = Put(EmptyDict, "template", t)
    /\ template_name = Some("template")
    /\ user_input = None
    /\ selected_categories = Some(<<"None">>)
    /\ receiving_categories = Some("None")
    /\ conditional_data = Some(EmptyDict)
    /\ now = 0
    /\ templates_dir = None
    /\ template_files = << >>
    /\ po_data = None
    /\ filename = None
    /\ confirm = None
    /\ asked = {}
    /\ cancelled = {}
    /\ console = {}
    /\ writes = << >>
    /\ validation = Valid

\* the price prompt hands the text to validate_price; the text is then merged
\* whatever the verdict, customize_template being defined on every text
ValidatePrice ==
    /\ pc = "validate_price"
    /\ validation' = validate_price(price_text)
    /\ user_input' = Some([UsualInput EXCEPT !.price = price_text])
    /\ asked' = asked \cup {"Price"}
    /\ pc' = "customize_template"
    /\ UNCHANGED <<templates, template_name, selected_categories, receiving_categories,
                   conditional_data, po_data, filename, confirm, cancelled, console,
                   writes, environment, price_text>>

NextPrice ==
    \/ ValidatePrice
    \/ Process

SpecPrice == InitPrice /\ [][NextPrice]_vars

-----------------------------------------------------------------------------
(* Properties of main *)

\* C1: at every point of a run after load_templates, whatever templates were
\* chosen and whatever was answered, the template map equals what load_templates
\* returned: no merge changes the template it was given, nested values included.
TemplatesNeverMutated ==
    pc # "load_templates" => templates = load_templates(templates_dir, template_files)

\* a merge has run on a template holding nested vendor, funds and copies, the
\* record was saved, and the record's nested values differ from the template's
TemplatesNeverMutatedWitness ==
    /\ pc = "another"
    /\ writes = <<TRUE>>
    /\ template_name = Some("book")
    /\ po_data.v["vendor"] # templates["book"]["vendor"]
    /\ po_data.v["fund_distribution"] # templates["book"]["fund_distribution"]
    /\ po_data.v["location"] # templates["book"]["location"]

\* C2: a file write happens only after the summary of the record was displayed
\* and the save confirmation of the iteration was asked and answered yes; once the
\* confirmation is declined or cancelled, nothing has been written for the record.
SaveOnlyAfterConfirmation ==
    /\ writes # << >> =>
          /\ "Order Summary" \in console
          /\ "Save this PO" \in asked
          /\ confirm = Some(TRUE)
    /\ ("Save this PO" \in asked /\ confirm # Some(TRUE)) =>
          /\ writes = << >>
          /\ "File not saved" \in console

\* the confirmation was cancelled and main went on to its last prompt
SaveOnlyAfterConfirmationWitness ==
    /\ pc = "exit"
    /\ "Save this PO" \in cancelled
    /\ "Order Summary" \in console
    /\ writes = << >>

\* the prompts of get_user_input and the category prompt
TopLevelPrompts ==
    {"Vendor code", "Vendor account", "Vendor reference", "Search OCLC", "OCLC number",
     "Title", "Author", "ISBN", "Publisher", "Publication year", "Price", "Quantity",
     "Enter quantity", "Reporting code", "Categories"}

\* C3: once a prompt of get_user_input or the category prompt was cancelled, the
\* record of the iteration is never merged, its summary and save confirmation are
\* never reached, and no file is written for it.
CancelAbortsRecord ==
    cancelled \cap TopLevelPrompts # {} =>
        /\ po_data = None
        /\ "Order Summary" \notin console
        /\ "Save this PO" \notin asked
        /\ writes = << >>

\* C4: when the write of save_po_file raises, the error is reported, the caller
\* reports a failure and no success, the write was attempted once, and main is at
\* or past the "Create another PO?" prompt of the iteration, never crashed.
SaveFailureHandled ==
    (\E i \in 1..Len(writes) : ~writes[i]) =>
        /\ "Error saving file" \in console
        /\ "Failed to save file" \in console
        /\ "Successfully created" \notin console
        /\ Len(writes) = 1
        /\ pc \in {"another", "exit"}
        /\ pc = "exit" => "Create another PO?" \in asked

\* a write failed and the "Create another PO?" prompt was asked and declined
SaveFailureHandledWitness ==
    /\ writes = <<FALSE>>
    /\ pc = "exit"
    /\ "Create another PO?" \in asked
    /\ confirm = Some(TRUE)

\* the files of the directory that are template files and parse
ParsedFiles ==
    IF IsNone(templates_dir) THEN {}
    ELSE {template_files[i] : i \in {j \in 1..Len(template_files) :
              /\ template_files[j].ext = ".json"
              /\ ~IsNone(template_files[j].content)}}

\* C5: after load_templates the map holds exactly the .json files that parse,
\* each under its base name; with no directory or no parsing file the map is
\* empty and main has ended with no template selection, no prompt and no write.
LoadsExactlyParsedFiles ==
    pc # "load_templates" =>
        /\ DOMAIN templates = {f.base : f \in ParsedFiles}
        /\ \A f \in ParsedFiles : templates[f.base] = f.content.v
        /\ ParsedFiles = {} =>
              /\ templates = EmptyDict
              /\ pc = "exit"
              /\ asked = {}
              /\ template_name = None
              /\ user_input = None
              /\ writes = << >>

\* a malformed .json file listed before a good one, and the good one loaded
LoadsExactlyParsedFilesWitness ==
    /\ pc = "select_template"
    /\ Len(template_files) = 2
    /\ template_files[1].ext = ".json"
    /\ IsNone(template_files[1].content)
    /\ DOMAIN templates = {template_files[2].base}

\* no file of the directory parses, and main has returned
NothingLoadedWitness ==
    /\ pc = "exit"
    /\ ~IsNone(templates_dir)
    /\ template_files # << >>
    /\ templates = EmptyDict

-----------------------------------------------------------------------------
(* Properties of the category rules and of the merge *)

\* the merge of the case returned a record
MergeDone == pc = "confirm" /\ po_data # None

\* the labels of a non-empty list, one after the other with " | " between them
RECURSIVE LabelsWithBars(_)
LabelsWithBars(labels) ==
    IF Len(labels) = 1 THEN labels[1]
    ELSE LabelsWithBars(SubSeq(labels, 1, Len(labels) - 1)) \o " | " \o labels[Len(labels)]

\* C6: the validator rejects the empty list and every list holding "None" with
\* another label, and accepts all others; the merged receiving_note is "" for
\* the selection "None" alone and the labels joined by " | ", in the list's
\* order, for an accepted selection without "None".
CategoryRules ==
    LET S == selected_categories.v
    IN  /\ pc # "validate_receiving_categories" =>
              (validation.valid <=>
                  ~(\/ S = << >>
                    \/ /\ \E i \in 1..Len(S) : S[i] = "None"
                       /\ \E i \in 1..Len(S) : S[i] # "None"))
        /\ pc = "rejected" => ~validation.valid
        /\ MergeDone =>
              /\ S = <<"None">> => po_data.v["receiving_note"] = ""
              /\ (\A i \in 1..Len(S) : S[i] # "None") =>
                    po_data.v["receiving_note"] = LabelsWithBars(S)

\* three labels were selected and the merged note joins them in their order
CategoryRulesWitness ==
    /\ MergeDone
    /\ selected_categories = Some(<<"Note", "Reserve", "Display">>)
    /\ po_data.v["receiving_note"] = "Note | Reserve | Display"

\* "None" was selected with another label and the selection was rejected
CategoryRejectedWitness ==
    /\ pc = "rejected"
    /\ selected_categories = Some(<<"None", "Note">>)
    /\ validation.message = "Cannot select 'None' with other categories"

\* get_receiving_note_categories has returned for the case
Collected == pc \in {"customize_template", "confirm", "crash"} /\ conditional_data # None

\* C7: for an accepted selection S the conditional data holds the
\* interested-user entry iff "Interested User" is in S, the additional-notes
\* entry iff "Note" is in S and the reserve-note entry iff "Reserve" is in S, and
\* the prompts of a branch were asked iff its label is in S; for "None" the data
\* is empty and only the category prompt was asked.
ConditionalBranches ==
    Collected =>
        LET S == {selected_categories.v[i] : i \in 1..Len(selected_categories.v)}
            data == conditional_data.v
        IN  /\ validation.valid
            /\ "None" \notin S =>
                  /\ Has(data, "interested_user") <=> "Interested User" \in S
                  /\ Has(data, "additional_notes") <=> "Note" \in S
                  /\ Has(data, "reserve_note") <=> "Reserve" \in S
                  /\ {"User ID", "Notify user", "Hold item"} \subseteq asked
                        <=> "Interested User" \in S
                  /\ {"User ID", "Notify user", "Hold item"} \cap asked # {}
                        <=> "Interested User" \in S
                  /\ "Additional notes" \in asked <=> "Note" \in S
                  /\ "Reserve note" \in asked <=> "Reserve" \in S
            /\ "None" \in S =>
                  /\ data = EmptyDict
                  /\ asked = {"Categories"}

\* "Note" and "Reserve" selected without "Interested User": both entries, both
\* prompts, and no interested-user entry
ConditionalBranchesWitness ==
    /\ Collected
    /\ selected_categories = Some(<<"Note", "Reserve">>)
    /\ DOMAIN conditional_data.v = {"additional_notes", "reserve_note"}
    /\ asked = {"Categories", "Additional notes", "Reserve note"}

\* C8: the notes of a merge are the free-text note when non-empty, then the
\* reserve note when non-empty with "Reserve Note: " put before its text; when
\* there is any, the record's note field is exactly that list, whether or not the
\* template held notes.
NotesReplaceTemplateNotes ==
    MergeDone =>
        LET data == conditional_data.v
            free == IF Has(data, "additional_notes") THEN data["additional_notes"] ELSE ""
            reserve == IF Has(data, "reserve_note") THEN data["reserve_note"] ELSE ""
            count == (IF free # "" THEN 1 ELSE 0) + (IF reserve # "" THEN 1 ELSE 0)
        IN  count > 0 =>
              /\ Has(po_data.v, "note")
              /\ Len(po_data.v["note"]) = count
              /\ free # "" => po_data.v["note"][1] = [note_text |-> free]
              /\ reserve # "" =>
                    po_data.v["note"][count] = [note_text |-> "Reserve Note: " \o reserve]

\* both texts given on a template that held a note of its own: two entries, the
\* template's note gone
NotesReplaceTemplateNotesWitness ==
    /\ MergeDone
    /\ Has(templates["template"], "note")
    /\ templates["template"]["note"] # << >>
    /\ po_data.v["note"] = <<[note_text |-> "Rush"], [note_text |-> "Reserve Note: Course 101"]>>

\* both texts given on a template without a note field: the field is created
NotesCreatedWitness ==
    /\ MergeDone
    /\ ~Has(templates["template"], "note")
    /\ Has(po_data.v, "note")
    /\ Len(po_data.v["note"]) = 2

\* C9: with an interested-user entry in the conditional data the record's
\* interested_user is a one-element list of the collected user id, notify and
\* hold values with notify_renewal and notify_cancel false; without the entry the
\* record has no interested_user field; both whatever the template held.
InterestedUserBlock ==
    MergeDone =>
        IF Has(conditional_data.v, "interested_user")
        THEN /\ Has(po_data.v, "interested_user")
             /\ Len(po_data.v["interested_user"]) = 1
             /\ po_data.v["interested_user"][1] =
                   [primary_id |-> conditional_data.v["interested_user"].user_id,
                    notify_receiving_activation |-> conditional_data.v["interested_user"].notify,
                    hold_item |-> conditional_data.v["interested_user"].hold,
                    notify_renewal |-> Some(FALSE),
                    notify_cancel |-> Some(FALSE)]
        ELSE ~Has(po_data.v, "interested_user")

\* the template held an interested user and the selection had none: the field is
\* gone from the record
InterestedUserBlockWitness ==
    /\ MergeDone
    /\ Has(templates["template"], "interested_user")
    /\ ~Has(conditional_data.v, "interested_user")
    /\ ~Has(po_data.v, "interested_user")

\* the template held an interested user and another one was collected
InterestedUserReplacedWitness ==
    /\ MergeDone
    /\ Has(templates["template"], "interested_user")
    /\ Has(conditional_data.v, "interested_user")
    /\ po_data.v["interested_user"] # templates["template"]["interested_user"]
    /\ po_data.v["interested_user"][1].primary_id = Some(UsualUserId)

-----------------------------------------------------------------------------
(* Properties of the price *)

\* digits, a point, two digits
HasTwoDecimalPlaces(text) ==
    /\ Len(text) >= 4
    /\ text[Len(text) - 2] = "."
    /\ \A i \in 1..Len(text) : i # Len(text) - 2 => IsDigit(text[i])

\* C10: a price text that validate_price accepts is stored in price.sum as
\* digits, a point and two digits (a whole number as itself followed by ".00"),
\* the currency being "USD"; a text that float() cannot parse is stored unchanged
\* and the merge does not raise.
AcceptedPriceHasTwoPlaces ==
    /\ pc # "crash"
    /\ (pc = "confirm" /\ validation.valid) =>
          /\ HasTwoDecimalPlaces(po_data.v["price"].sum)
          /\ (price_text[1] # "0" /\ \A i \in 1..Len(price_text) : IsDigit(price_text[i])) =>
                po_data.v["price"].sum = price_text \o <<".", "0", "0">>
          /\ po_data.v["price"].currency.value = "USD"
    /\ (pc = "confirm" /\ ~PyFloat(price_text).ok) =>
          po_data.v["price"].sum = price_text

-----------------------------------------------------------------------------
(* Properties of the merge on templates without the conventional paths *)

\* customize_template has ended for the case, by returning or by raising
MergeEnded == pc \in {"confirm", "crash"} /\ user_input # None

\* C11: a template without fund_distribution is merged without an exception into
\* a record without fund_distribution; for a template with a non-empty
\* fund_distribution list the first element's amount in the record is the
\* record's price object and every later element is the template's.
FundDistributionFrame ==
    MergeEnded =>
        LET template == templates[template_name.v]
        IN  /\ ~Has(template, "fund_distribution") =>
                  /\ po_data # None
                  /\ ~Has(po_data.v, "fund_distribution")
            /\ (/\ po_data # None
                /\ Has(template, "fund_distribution")
                /\ (IF Has(template, "fund_distribution")
                    THEN template["fund_distribution"] # << >> ELSE FALSE)) =>
                  /\ Has(po_data.v, "fund_distribution")
                  /\ Len(po_data.v["fund_distribution"]) = Len(template["fund_distribution"])
                  /\ po_data.v["fund_distribution"][1].amount = po_data.v["price"]
                  /\ po_data.v["price"].currency.value = "USD"
                  /\ \A i \in 2..Len(template["fund_distribution"]) :
                        po_data.v["fund_distribution"][i] = template["fund_distribution"][i]

\* C13: on every template that is a JSON object, with or without a vendor
\* mapping, material_type, fund_distribution and location, customize_template
\* returns a record, and the record carries the collected vendor code and vendor
\* account.
MergeNeedsNoConventionalPath ==
    MergeEnded =>
        /\ po_data # None
        /\ po_data.v["vendor"] = [value |-> user_input.v.vendor_code]
        /\ po_data.v["vendor_account"] = user_input.v.vendor_account

-----------------------------------------------------------------------------
(* The bibliographic block, over the collected values *)

\* the records get_user_input can return, by which optional values are empty
BibliographicInputs ==
    {[UsualInput EXCEPT !.author = author, !.isbn = isbn, !.publisher = publisher,
                        !.publication_year = year, !.oclc_number = oclc] :
        author \in {"", "A. Author"}, isbn \in {"", "9780306406157"},
        publisher \in {"", "New press"}, year \in {"", "2024"},
        oclc \in {None, Some("1234")}}

\* templates without a resource_metadata, with a title only, with every value
BibliographicTemplates ==
    {TemplateOf([MinimalFeatures EXCEPT !.metadata = kind]) :
        kind \in {"absent", "title", "full"}}

InitBiblio ==
    /\ pc = "customize_template"
    /\ \E t \in BibliographicTemplates : templates = Put(EmptyDict, "template", t)
    /\ \E input \in BibliographicInputs : user_input = Some(input)
    /\ template_name = Some("template")
    /\ selected_categories = Some(<<"None">>)
    /\ receiving_categories = Some("None")
    /\ conditional_data = Some(EmptyDict)
    /\ now = 0
    /\ templates_dir = None
    /\ template_files = << >>
    /\ po_data = None
    /\ filename = None
    /\ confirm = None
    /\ asked = {}
    /\ cancelled = {}
    /\ console = {}
    /\ writes = << >>
    /\ price_text = << >>
    /\ validation = Valid

NextBiblio == Process

SpecBiblio == InitBiblio /\ [][NextBiblio]_vars

OptionalValues == {"author", "isbn", "publisher", "publication_year"}

\* C12: the record's resource_metadata holds the collected title; for each of
\* author, isbn, publisher and publication_year a non-empty collected value is
\* stored, and an empty one leaves the key as the template had it, absent when
\* the template had none; so a template without optional values, merged with
\* empty optional values and no lookup identifier, gives a block of title only.
BibliographicBlock ==
    MergeDone =>
        LET block == po_data.v["resource_metadata"]
            template == templates[template_name.v]
            held == IF Has(template, "resource_metadata")
                    THEN template["resource_metadata"] ELSE EmptyDict
            input == user_input.v
        IN  /\ block["title"] = input.title
            /\ \A k \in OptionalValues :
                  IF input[k] # ""
                  THEN Has(block, k) /\ block[k] = input[k]
                  ELSE /\ Has(block, k) <=> Has(held, k)
                       /\ Has(block, k) => block[k] = held[k]
            /\ (/\ DOMAIN held \cap OptionalValues = {}
                /\ \A k \in OptionalValues : input[k] = ""
                /\ IsNone(input.oclc_number)) => DOMAIN block = {"title"}

\* no resource_metadata in the template, every optional value empty, no lookup
\* identifier: the block of the record holds the title and nothing else
BibliographicBlockWitness ==
    /\ MergeDone
    /\ ~Has(templates["template"], "resource_metadata")
    /\ \A k \in OptionalValues : user_input.v[k] = ""
    /\ IsNone(user_input.v.oclc_number)
    /\ po_data.v["resource_metadata"] = [title |-> user_input.v.title]

-----------------------------------------------------------------------------
(* The user id, from the prompt to the merged record *)

TenDigits == <<"1", "2", "3", "4", "5", "6", "7", "8", "9", "0">>

\* what is typed between the blanks: up to ten digits, or nine digits with one of
\* them replaced by another character
UserIdBodies ==
    {SubSeq(TenDigits, 1, n) : n \in 0..10}
    \cup {[UsualUserId EXCEPT ![i] = c] :
            i \in 1..9, c \in {"a", " ", "-"} \cup NonAsciiDigits}

UserIdTexts ==
    {lead \o body \o trail :
        lead \in TextsUpTo({" "}, MaxPadding), trail \in TextsUpTo({" "}, MaxPadding),
        body \in UserIdBodies}

InitUserId ==
    /\ pc = "user_id_prompt"
    /\ \E t \in {RichTemplate, MinimalTemplate} : templates = Put(EmptyDict, "template", t)
    /\ template_name = Some("template")
    /\ user_input = Some(UsualInput)
    /\ selected_categories = Some(<<"Interested User">>)
    /\ receiving_categories = None
    /\ conditional_data = None
    /\ now = 0
    /\ templates_dir = None
    /\ template_files = << >>
    /\ po_data = None
    /\ filename = None
    /\ confirm = None
    /\ asked = {"Categories"}
    /\ cancelled = {}
    /\ console = {}
    /\ writes = << >>
    /\ price_text = << >>
    /\ validation = Valid

\* the "User ID" prompt hands the text to validate_user_id, and
\* get_receiving_note_categories stores the text as typed; the text is then
\* merged whatever the verdict, customize_template being defined on every text
AskUserId ==
    /\ pc = "user_id_prompt"
    /\ \E text \in UserIdTexts :
          LET r == get_receiving_note_categories(selected_categories,
                      [UsualConditionalAnswers EXCEPT !.user_id = Some(text)])
          IN  /\ validation' = validate_user_id(text)
              /\ receiving_categories' = Some(r.category_string)
              /\ conditional_data' = Some(r.conditional_data)
              /\ asked' = asked \cup r.asked
              /\ cancelled' = cancelled \cup r.cancelled
    /\ pc' = "customize_template"
    /\ UNCHANGED <<templates, template_name, user_input, selected_categories, po_data,
                   filename, confirm, console, writes, environment, price_text>>

NextUserId ==
    \/ AskUserId
    \/ Process

SpecUserId == InitUserId /\ [][NextUserId]_vars

\* exactly nine characters, each one of 0..9
NineDecimalDigits(text) ==
    /\ Len(text) = 9
    /\ \A i \in 1..Len(text) :
          text[i] \in {"0", "1", "2", "3", "4", "5", "6", "7", "8", "9"}

\* C14: the user-id validator accepts a text iff it is exactly nine decimal
\* digits, and the primary_id of a merged record whose user id was accepted is
\* exactly nine decimal digits, with nothing around them.
UserIdIsNineDigits ==
    /\ pc \in {"customize_template", "confirm"} =>
          (validation.valid <=>
              NineDecimalDigits(conditional_data.v["interested_user"].user_id.v))
    /\ (MergeDone /\ validation.valid) =>
          NineDecimalDigits(po_data.v["interested_user"][1].primary_id.v)

-----------------------------------------------------------------------------
(* The file name, from the title and vendor reference prompts *)

RECURSIVE Repeat(_, _)
Repeat(word, n) == IF n = 0 THEN << >> ELSE word \o Repeat(word, n - 1)

ExampleTitle ==
    <<"L", "e", "a", "r", "n", "i", "n", "g", " ", "G", "o", ":",
      " ", "A", "n", " ", "I", "n", "t", "r", "o", "d", "u", "c",
      "t", "i", "o", "n", "!", "!">>
ExampleVendorRef == <<"I", "N", "V", "-", "2", "0", "2", "4", "/", "0", "0", "1">>

\* titles the title prompt lets through: the example, and words repeated up to
\* and beyond the limit, with blanks, hyphens and punctuation among them
TitleTexts ==
    {ExampleTitle}
    \cup {Repeat(word, n) : n \in 1..MaxRepeats,
             word \in {<<"G", "o", " ">>, <<"a", "-", "!", " ", " ">>,
                       <<"x", "_", "/">>, <<" ", "Z">>}}

\* what the vendor reference prompt returns: cancelled, left empty, or a text
VendorRefAnswers ==
    {None, Some(<< >>), Some(ExampleVendorRef), Some(<<"/", " ">>)}
    \cup {Some(Repeat(<<"R", "-", "9", "/">>, n)) : n \in 1..MaxRepeats}

InitFilename ==
    /\ pc = "title_and_reference_prompts"
    /\ templates = Put(EmptyDict, "template", MinimalTemplate)
    /\ template_name = Some("template")
    /\ user_input = None
    /\ selected_categories = Some(<<"None">>)
    /\ receiving_categories = Some("None")
    /\ conditional_data = Some(EmptyDict)
    /\ now \in 0..MaxNow
    /\ templates_dir = None
    /\ template_files = << >>
    /\ po_data = None
    /\ filename = None
    /\ confirm = None
    /\ asked = {}
    /\ cancelled = {}
    /\ console = {}
    /\ writes = << >>
    /\ price_text = << >>
    /\ validation = Valid

\* get_user_input with the title and the vendor reference as typed, the other
\* prompts answered as usual
AskTitleAndReference ==
    /\ pc = "title_and_reference_prompts"
    /\ \E title \in TitleTexts, vendor_ref \in VendorRefAnswers :
          LET r == get_user_input([UsualAnswers EXCEPT !.title = Some(title),
                                                       !.vendor_ref = vendor_ref])
          IN  /\ user_input' = Some(r.user_input)
              /\ asked' = asked \cup r.asked
              /\ cancelled' = cancelled \cup r.cancelled
    /\ pc' = "customize_template"
    /\ UNCHANGED <<templates, template_name, selected_categories, receiving_categories,
                   conditional_data, po_data, filename, confirm, console, writes,
                   environment, scratch>>

NextFilename ==
    \/ AskTitleAndReference
    \/ Process

SpecFilename == InitFilename /\ [][NextFilename]_vars

\* letters, digits, underscore and hyphen only
FilesystemSafe(text) ==
    \A i \in 1..Len(text) : text[i] \in Letters \/ IsDigit(text[i]) \/ text[i] \in {"_", "-"}

\* the characters of text that are letters, digits, underscores or hyphens, in
\* their order
RECURSIVE WordAndHyphenChars(_)
WordAndHyphenChars(text) ==
    IF text = << >> THEN << >>
    ELSE (IF FilesystemSafe(<<Head(text)>>) THEN <<Head(text)>> ELSE << >>)
         \o WordAndHyphenChars(Tail(text))

\* C15: the file name of a record is generic_<title>_<vendorref>_<timestamp>.json,
\* the title segment safe and of at most 30 characters, the vendor reference
\* segment the first 15 kept characters of a supplied reference, and the
\* placeholder "noref", never the empty text, when no reference was supplied.
FilenameSegments ==
    (pc = "confirm" /\ filename # None) =>
        LET name == filename.v
            reference == user_input.v.vendor_reference_number
            kept == WordAndHyphenChars(reference)
        IN  /\ name.prefix = "generic"
            /\ name.extension = ".json"
            /\ name.timestamp = now
            /\ FilesystemSafe(name.clean_title)
            /\ Len(name.clean_title) <= 30
            /\ user_input.v.title = ExampleTitle =>
                  name.clean_title = <<"L", "e", "a", "r", "n", "i", "n", "g", "_", "G", "o", "_",
                    "A", "n", "_", "I", "n", "t", "r", "o", "d", "u", "c", "t",
                    "i", "o", "n">>
            /\ reference # << >> =>
                  /\ Len(name.clean_vendor_ref) <= 15
                  /\ name.clean_vendor_ref =
                        SubSeq(kept, 1, IF Len(kept) < 15 THEN Len(kept) ELSE 15)
            /\ reference = << >> =>
                  /\ name.clean_vendor_ref # << >>
                  /\ name.clean_vendor_ref = <<"n", "o", "r", "e", "f">>

====
